---- MODULE Spec2Model ----
(***************************************************************************)
(* Model of the WSI-Viewer tile service: the LRU cache of reader handles   *)
(* (lru_reader_cache - v0.py), the pyramid builder and tile resolver of    *)
(* the readers (wsi_reader.py), the service facade (wsi_service.py) and    *)
(* the slide routes (routers/wsi.py).                                      *)
(*                                                                         *)
(* Optional Python values are modelled as sequences: None is <<>> and a    *)
(* value v is <<v>>.  A file path is a record [stem, ext]; stem is the     *)
(* sequence of the "_"-separated segments of Path(...).stem.               *)
(***************************************************************************)
EXTENDS Integers, Sequences, FiniteSets, TLC

VARIABLES
    max_size,     \* LRUReaderCache.max_size
    cache,        \* LRUReaderCache.cache: OrderedDict as a sequence of [key, rd]
    lastCall,     \* observation: the last completed call, its arguments and outcome
    accessOrder,  \* history: keys by their most recent successful get/add, oldest first
    history,      \* history: the get/add calls made on the cache so far
    files,        \* UPLOAD_DIR: slide path -> Optional image
    tiles,        \* cache_dir: tile file name -> the tile written under it
    dzi,          \* cache_dir: slide name -> the image its DZI pyramid was generated from
    served,       \* history: request key -> the path get_tile returned for it
    infos,        \* history: slide -> the info its first successful open_slide returned
    pc,           \* per worker: the statement of get/add it is about to run
    loc           \* per worker: the call it runs, its argument and its result

cacheVars == <<max_size, cache, accessOrder, history>>
diskVars == <<files, tiles, dzi, served, infos>>
workerVars == <<pc, loc>>
vars == <<max_size, cache, lastCall, accessOrder, history, files, tiles, dzi, served,
          infos, pc, loc>>

(***************************************************************************)
(* Bounds of the model.                                                    *)
(***************************************************************************)
MaxCap == 2
MaxHist == 4
MaxLevel == 1
MaxXY == 1
MaxTiles == 1
MaxSide == 3
MaxSize == 3
MaxDim == 1100
NumWorkers == 2

None == <<>>
Some(v) == <<v>>

Workers == 1..NumWorkers

\* A worker that runs no call.
NoLocals == [call |-> "none", path |-> None, ret |-> None]

(***************************************************************************)
(* Slide paths.                                                            *)
(***************************************************************************)
Path(stem, ext) == [stem |-> stem, ext |-> ext]

SlideA == Path(<<"a">>, ".png")
SlideAB == Path(<<"a", "b">>, ".png")
SlideW == Path(<<"w">>, ".svs")

Slides == {SlideA, SlideAB, SlideW}

GENERAL_IMAGE_FORMATS == {".jpg", ".jpeg", ".tif", ".tiff", ".png", ".bmp"}

(***************************************************************************)
(* Reader handles.                                                         *)
(***************************************************************************)
\* BaseReader.__init__: a handle starts with no slide info and no pyramid.
BaseReader(slide_path, kind) ==
    [slide_path |-> slide_path, kind |-> kind, slide_info |-> None, pyramid |-> None]

\* wsi_reader.open_slide: the reader kind is chosen by the file suffix.
open_slide(slide_path) ==
    IF slide_path.ext \in GENERAL_IMAGE_FORMATS
    THEN BaseReader(slide_path, "PngLikeReader")
    ELSE BaseReader(slide_path, "WSIReader")

\* Reader(file_path) of LRUReaderCache.add: the reader creation logic, which the
\* service replaces by the concrete reader of wsi_reader.open_slide.
Reader(file_path) == open_slide(file_path)

(***************************************************************************)
(* LRUReaderCache over an OrderedDict.                                     *)
(***************************************************************************)
Keys(c) == {c[i].key : i \in 1..Len(c)}

Contains(c, k) == \E i \in 1..Len(c) : c[i].key = k

IndexOf(c, k) == CHOOSE i \in 1..Len(c) : c[i].key = k

GetItem(c, k) == c[IndexOf(c, k)].rd

Without(c, k) == SelectSeq(c, LAMBDA e : e.key # k)

move_to_endSkippedMutant(c, k) == c

\* OrderedDict.move_to_end(key) on a key that is present.
move_to_end(c, k) == Append(Without(c, k), c[IndexOf(c, k)])

\* OrderedDict.__setitem__: a present key keeps its position, a new key goes last.
SetItem(c, k, v) ==
    IF Contains(c, k)
    THEN [i \in 1..Len(c) |-> IF c[i].key = k THEN [key |-> k, rd |-> v] ELSE c[i]]
    ELSE Append(c, [key |-> k, rd |-> v])

popitem_lastMutant(c) == [rest |-> SubSeq(c, 1, Len(c) - 1), key |-> c[Len(c)].key]

\* OrderedDict.popitem(last=False) on a non-empty dict: the first item leaves.
popitem_first(c) == [rest |-> Tail(c), key |-> c[1].key]

IsFullMutant(c, m) == Len(c) > m

\* add's test "len(self.cache) >= self.max_size".
IsFull(c, m) == Len(c) >= m

CacheResult(c, ret, raised, evicted, created) ==
    [cache |-> c, ret |-> ret, raised |-> raised, evicted |-> evicted, created |-> created]

\* LRUReaderCache.get
get(c, file_path) ==
    IF ~Contains(c, file_path)
    THEN CacheResult(c, None, FALSE, None, FALSE)
    ELSE LET c1 == move_to_end(c, file_path)
         IN  CacheResult(c1, Some(GetItem(c1, file_path)), FALSE, None, FALSE)

addWithoutResidentTestMutant(c, m, file_path) ==
    IF IsFull(c, m) /\ c = <<>>
    THEN CacheResult(c, None, TRUE, None, TRUE)
    ELSE LET popped == IF IsFull(c, m) THEN popitem_first(c)
                       ELSE [rest |-> c, key |-> file_path]
         IN  CacheResult(Append(Without(popped.rest, file_path),
                                [key |-> file_path, rd |-> Reader(file_path)]),
                         Some(Reader(file_path)), FALSE,
                         IF IsFull(c, m) THEN Some(popped.key) ELSE None, TRUE)

\* LRUReaderCache.add; popitem on an empty dict raises KeyError out of add.
add(c, m, file_path) ==
    IF Contains(c, file_path)
    THEN get(c, file_path)
    ELSE LET new_reader == Reader(file_path)
         IN  IF IsFull(c, m) /\ c = <<>>
             THEN CacheResult(c, None, TRUE, None, TRUE)
             ELSE LET popped == IF IsFull(c, m) THEN popitem_first(c)
                                ELSE [rest |-> c, key |-> file_path]
                      c1 == popped.rest
                      c2 == move_to_end(SetItem(c1, file_path, new_reader), file_path)
                  IN  CacheResult(c2, Some(new_reader), FALSE,
                                  IF IsFull(c, m) THEN Some(popped.key) ELSE None, TRUE)

\* LRUReaderCache.__len__
CacheLen == Len(cache)

(***************************************************************************)
(* Observation of calls.                                                   *)
(***************************************************************************)
NoCall ==
    [op |-> "none", path |-> None, ret |-> None, raised |-> FALSE,
     evicted |-> None, created |-> FALSE,
     x |-> 0, y |-> 0, level |-> 0, size |-> 0,
     built |-> FALSE, wrote |-> FALSE, cached |-> FALSE, prior |-> None,
     levels |-> None, shape |-> None, tile |-> None,
     dropped |-> None, status |-> 0]

CacheCall(op, file_path, r) ==
    [NoCall EXCEPT !.op = op, !.path = Some(file_path), !.ret = r.ret,
                   !.raised = r.raised, !.evicted = r.evicted, !.created = r.created]

\* The recency order after one more successful access of key k.
Touch(order, k) == Append(SelectSeq(order, LAMBDA e : e # k), k)

(***************************************************************************)
(* SpecCache: a cache constructed directly, driven by get and add calls.   *)
(***************************************************************************)
\* LRUReaderCache.__init__: any max_size is accepted, the dict starts empty.
InitCache ==
    /\ max_size \in (0 - 1)..MaxCap
    /\ cache = <<>>
    /\ lastCall = NoCall
    /\ accessOrder = <<>>
    /\ history = <<>>
    /\ files = [p \in Slides |-> None]
    /\ tiles = <<>>
    /\ dzi = <<>>
    /\ served = <<>>
    /\ infos = <<>>
    /\ pc = [w \in Workers |-> "idle"]
    /\ loc = [w \in Workers |-> NoLocals]

CallGet(file_path) ==
    /\ Len(history) < MaxHist
    /\ LET r == get(cache, file_path)
       IN  /\ cache' = r.cache
           /\ lastCall' = CacheCall("get", file_path, r)
           /\ accessOrder' = IF r.ret # None THEN Touch(accessOrder, file_path)
                             ELSE accessOrder
    /\ history' = Append(history, <<"get", file_path>>)
    /\ UNCHANGED <<max_size, diskVars, workerVars>>

CallAdd(file_path) ==
    /\ Len(history) < MaxHist
    /\ LET r == add(cache, max_size, file_path)
       IN  /\ cache' = r.cache
           /\ lastCall' = CacheCall("add", file_path, r)
           /\ accessOrder' = IF r.raised THEN accessOrder
                             ELSE Touch(accessOrder, file_path)
    /\ history' = Append(history, <<"add", file_path>>)
    /\ UNCHANGED <<max_size, diskVars, workerVars>>

NextCache ==
    \/ \E p \in Slides : CallGet(p)
    \/ \E p \in Slides : CallAdd(p)

SpecCache == InitCache /\ [][NextCache]_vars

(***************************************************************************)
(* C1: for a cache constructed with max_size >= 1, after any sequence of   *)
(* completed get and add calls the number of cached entries is at most     *)
(* max_size.                                                               *)
(***************************************************************************)
C1_SizeBounded == max_size >= 1 => CacheLen <= max_size

\* A full cache has just taken a new key by evicting one.
C1_Witness ==
    /\ max_size >= 1
    /\ lastCall.op = "add"
    /\ lastCall.evicted # None
    /\ CacheLen = max_size

(***************************************************************************)
(* C2: when add inserts a new key into a full cache, exactly one entry is  *)
(* evicted, the resident one whose most recent get/add is the oldest, and  *)
(* every other resident entry stays; with capacity 2 and the accesses      *)
(* A, B, A, C the cache holds exactly {A, C}.                              *)
(***************************************************************************)
\* The resident key that comes first in the recency history.
OldestResident(c, order) ==
    CHOOSE k \in Keys(c) :
        \A j \in Keys(c) :
            (CHOOSE i \in 1..Len(order) : order[i] = k)
                <= (CHOOSE i \in 1..Len(order) : order[i] = j)

C2_Step ==
    (/\ lastCall'.op = "add"
     /\ max_size >= 1
     /\ lastCall'.path # None
     /\ ~Contains(cache, lastCall'.path[1])
     /\ Len(cache) = max_size)
    => LET victim == OldestResident(cache, accessOrder)
       IN  /\ lastCall'.evicted = Some(victim)
           /\ Keys(cache') = (Keys(cache) \ {victim}) \cup {lastCall'.path[1]}
           /\ Len(cache') = Len(cache)

C2_Scenario ==
    \A a, b, c \in Slides :
        (/\ Cardinality({a, b, c}) = 3
         /\ max_size = 2
         /\ history \in {<<<<"add", a>>, <<"add", b>>, <<"add", a>>, <<"add", c>>>>,
                         <<<<"add", a>>, <<"add", b>>, <<"get", a>>, <<"add", c>>>>})
        => Keys(cache) = {a, c}

C2_StrictLRU == [][C2_Step]_vars /\ []C2_Scenario

\* The accesses A, B, A, C on a cache of capacity 2, the last one evicting.
C2_Witness ==
    /\ max_size = 2
    /\ Len(history) = 4
    /\ history[1] = history[3]
    /\ history[2] # history[1]
    /\ history[4][2] \notin {history[1][2], history[2][2]}
    /\ history[4][1] = "add"
    /\ lastCall.evicted = Some(history[2][2])

(***************************************************************************)
(* PngLikeReader._build_pyramid: level geometry.                           *)
(***************************************************************************)
\* The default of _build_pyramid's min_dimension parameter.
min_dimension == 512

Max(a, b) == IF a >= b THEN a ELSE b

Min(a, b) == IF a <= b THEN a ELSE b

RECURSIVE Pow2(_)
\* math.pow(2, level) for level >= 0.
Pow2(n) == IF n <= 0 THEN 1 ELSE 2 * Pow2(n - 1)

RECURSIVE CeilLog2(_, _)
\* math.ceil(math.log2(n / d)) for integers n, d >= 1: the least integer k
\* with n <= d * 2^k, negative when n is at most half of d.
CeilLog2(n, d) ==
    IF n > d THEN 1 + CeilLog2(n, 2 * d)
    ELSE IF 2 * n <= d THEN CeilLog2(2 * n, d) - 1
    ELSE 0

\* level_count = math.ceil(math.log2(max_dimension / min_dimension)) + 1
LevelCount(width, height, min_dim) == CeilLog2(Max(width, height), min_dim) + 1

\* current_width = max(current_width // 2, min_dimension)
NextLevel(d, min_dim) == Max(d \div 2, min_dim)

RECURSIVE LevelDimensions(_, _, _, _)
\* The loop "for level in range(level_count)": a count <= 0 appends nothing.
LevelDimensions(current_width, current_height, count, min_dim) ==
    IF count <= 0 THEN <<>>
    ELSE <<<<current_width, current_height>>>>
         \o LevelDimensions(NextLevel(current_width, min_dim),
                            NextLevel(current_height, min_dim), count - 1, min_dim)

\* level_downsamples of the same loop.
LevelDownsamples(count) == [l \in 1..Max(count, 0) |-> Pow2(l - 1)]

Image(w, h) == [w |-> w, h |-> h]

\* File content no image library can decode.
Unreadable == Image(0, 0)

\* cv2.imread gives an image, pyvips opens the file.
Decodable(img) == img.w >= 1 /\ img.h >= 1

\* The info dictionary of _build_pyramid for a decoded image.
PngInfo(img) ==
    LET count == LevelCount(img.w, img.h, min_dimension)
    IN  [dimensions |-> <<img.w, img.h>>,
         level_count |-> count,
         level_dimensions |-> LevelDimensions(img.w, img.h, count, min_dimension),
         level_downsamples |-> LevelDownsamples(count)]

\* The raster pyramid: level 0 is the image, level i > 0 is cv2.resize to
\* level_dimensions[i]; a raster is modelled by its source image, level and shape.
PngPyramid(img, info) ==
    [l \in 1..Len(info.level_dimensions) |->
        [img |-> img, lvl |-> l - 1,
         w |-> info.level_dimensions[l][1], h |-> info.level_dimensions[l][2]]]

\* PngLikeReader._build_pyramid on the file at the reader's path: a missing
\* file or one cv2.imread cannot decode gives (False, None), a readable one
\* sets slide_info and pyramid.
build_pyramid(rd, file) ==
    IF file = None \/ ~Decodable(file[1])
    THEN [rd |-> rd, ok |-> FALSE, info |-> None, built |-> FALSE]
    ELSE LET info == PngInfo(file[1])
         IN  [rd |-> [rd EXCEPT !.slide_info = Some(info),
                                !.pyramid = Some(PngPyramid(file[1], info))],
              ok |-> TRUE, info |-> Some(info), built |-> TRUE]

PngOpenSlideRebuildsMutant(rd, file) == build_pyramid(rd, file)

\* PngLikeReader.open_slide
PngOpenSlide(rd, file) ==
    IF rd.slide_info = None
    THEN build_pyramid(rd, file)
    ELSE [rd |-> rd, ok |-> TRUE, info |-> rd.slide_info, built |-> FALSE]

(***************************************************************************)
(* PngLikeReader.get_tile: cache file name, crop and padding.              *)
(***************************************************************************)
\* f"{slide_id}_{level}_{x}_{y}_{size}.jpg" with slide_id = Path(slide_path).stem,
\* as its "_"-separated segments (the last one carries the ".jpg").
TileName(slide_path, level, x, y, size) ==
    slide_path.stem \o <<ToString(level), ToString(x), ToString(y), ToString(size)>>

\* str(cache_file)
TilePath(name) == [dir |-> "cache_dir", file |-> name]

\* numpy's a[start:stop] on an axis of length n: negative bounds count from the
\* end, both are clipped to [0, n], an inverted range is empty.
NpSlice(n, start, stop) ==
    LET lo == IF start < 0 THEN Max(start + n, 0) ELSE Min(start, n)
        hi == IF stop < 0 THEN Max(stop + n, 0) ELSE Min(stop, n)
    IN  [lo |-> lo, len |-> Max(hi - lo, 0)]

\* The background of np.full((size, size, 3), 255).
White == <<255, 255, 255>>

\* The pixel of a level raster at column c, row r.
LevelPixel(level_image, c, r) == <<level_image.lvl, c, r>>

OriginNoScaleMutant(i, size) == i

\* tile_x = x * size, tile_y = y * size
Origin(i, size) == i * size

\* The range test "tile_x >= level_width or tile_y >= level_height".
OutOfRange(tile_x, tile_y, level_width, level_height) ==
    tile_x >= level_width \/ tile_y >= level_height

\* tile = level_image[tile_y:end_y, tile_x:end_x]: the crop, by its origin in
\* the level raster and its shape.
Crop(level_image, x, y, size) ==
    LET tile_x == Origin(x, size)
        tile_y == Origin(y, size)
        end_x == Min(tile_x + size, level_image.w)
        end_y == Min(tile_y + size, level_image.h)
        rows == NpSlice(level_image.h, tile_y, end_y)
        cols == NpSlice(level_image.w, tile_x, end_x)
    IN  [img |-> level_image.img, lvl |-> level_image.lvl,
         cs |-> cols.lo, rs |-> rows.lo, tw |-> cols.len, th |-> rows.len]

PadNeverMutant(crop, size) ==
    [crop |-> crop, padded |-> FALSE, w |-> crop.tw, h |-> crop.th]

\* "if tile.shape[0] != size or tile.shape[1] != size": the crop is copied to
\* the top-left of a white size x size tile; otherwise the crop is the tile.
Pad(crop, size) ==
    IF crop.th # size \/ crop.tw # size
    THEN [crop |-> crop, padded |-> TRUE, w |-> size, h |-> size]
    ELSE [crop |-> crop, padded |-> FALSE, w |-> crop.tw, h |-> crop.th]

ExtractTile(level_image, x, y, size) == Pad(Crop(level_image, x, y, size), size)

\* The pixel of a tile at column i, row j (0-based, inside the tile).
TilePixel(t, i, j) ==
    IF t.padded /\ ~(i < t.crop.tw /\ j < t.crop.th)
    THEN White
    ELSE <<t.crop.lvl, t.crop.cs + i, t.crop.rs + j>>

TileResult(rd, ret, tls, built, wrote) ==
    [rd |-> rd, ret |-> ret, tiles |-> tls, built |-> built, wrote |-> wrote,
     raised |-> FALSE]

\* PngLikeReader.get_tile; every exception inside is caught and gives None.
PngGetTile(rd, file, tls, slide_path, x, y, level, size) ==
    LET name == TileName(slide_path, level, x, y, size)
    IN  IF name \in DOMAIN tls
        THEN TileResult(rd, Some(TilePath(name)), tls, FALSE, FALSE)
        ELSE
        LET o == IF rd.slide_info = None THEN PngOpenSlide(rd, file)
                 ELSE [rd |-> rd, ok |-> TRUE, info |-> rd.slide_info, built |-> FALSE]
        IN  IF ~o.ok THEN TileResult(o.rd, None, tls, o.built, FALSE)
            ELSE
            LET pyramid == o.rd.pyramid[1]
                n == Len(pyramid)
            IN  IF level >= n THEN TileResult(o.rd, None, tls, o.built, FALSE)
                ELSE IF level < 0 - n THEN TileResult(o.rd, None, tls, o.built, FALSE)
                ELSE
                LET level_image == pyramid[IF level >= 0 THEN level + 1 ELSE n + level + 1]
                IN  IF OutOfRange(Origin(x, size), Origin(y, size),
                                  level_image.w, level_image.h)
                    THEN TileResult(o.rd, None, tls, o.built, FALSE)
                    ELSE TileResult(o.rd, Some(TilePath(name)),
                                    (name :> ExtractTile(level_image, x, y, size)) @@ tls,
                                    o.built, TRUE)

(***************************************************************************)
(* WSIReader: the DZI pyramid on disk.                                     *)
(***************************************************************************)
\* tile_size of generate_dzi_image's dzsave call.
dzi_tile_size == 512

RECURSIVE DzLevels(_, _, _)
\* dzsave(depth='onetile'): halve, rounding up, until the image fits one tile;
\* one directory per level.
DzLevels(w, h, ts) ==
    IF w <= ts /\ h <= ts THEN 1
    ELSE 1 + DzLevels((w + 1) \div 2, (h + 1) \div 2, ts)

\* _extract_slide_info_from_dzi
DziInfo(img) ==
    LET count == DzLevels(img.w, img.h, dzi_tile_size)
    IN  [width |-> img.w, height |-> img.h, tile_size |-> dzi_tile_size,
         level_count |-> count,
         level_dimensions |-> LevelDimensions(img.w, img.h, count, dzi_tile_size),
         level_downsamples |-> LevelDownsamples(count)]

\* A whole-slide image as pyvips reads it: its size and its header fields,
\* each with the type of its value.
WsiImage(w, h, fields) == [w |-> w, h |-> h, fields |-> fields]

\* A descriptive text is a sequence of "|"-separated segments <<key, value>>
\* standing for "key = value"; a text segment without "=" has value "".
AperioText == <<<<"Aperio Image Format", "">>, <<"AppMag", "40">>, <<"MPP", "0.25">>>>
PlainText == <<<<"Aperio Image Format", "">>>>
WordText == <<<<"MPP", "x">>, <<"AppMag", "40">>>>
DotText == <<<<"AppMag", "40">>, <<"MPP", ".">>>>

StrField(text) == [type |-> "str", text |-> text]
IntField == [type |-> "int", text |-> <<>>]
BlobField == [type |-> "blob", text |-> <<>>]

Described(field) == [k \in {"image-description"} |-> field]
AperioFields == Described(StrField(AperioText))

\* The strings the group ([\d.]+) can capture, and those float() accepts,
\* with their value in hundredths.
Numerals == {"40", "0.25"}
NumberLike == Numerals \cup {"."}
ParseFloat(str) == CASE str = "40" -> 4000 [] str = "0.25" -> 25

\* re.search(key \s*=\s*([\d.]+), text): the first segment that matches.
Search(text, key) ==
    LET hits == {i \in 1..Len(text) : text[i][1] = key /\ text[i][2] \in NumberLike}
    IN  IF hits = {} THEN None
        ELSE Some(text[CHOOSE i \in hits : \A j \in hits : i <= j][2])

\* "float(match.group(1)) if match else None"; ValueError when float() rejects
\* the captured string.
FloatOrNone(match) ==
    IF match = None THEN [raised |-> FALSE, value |-> None]
    ELSE IF match[1] \in Numerals
    THEN [raised |-> FALSE, value |-> Some(ParseFloat(match[1]))]
    ELSE [raised |-> TRUE, value |-> None]

\* read_wsi_metadata: non-scalar fields are deleted, then mpp and mag are
\* searched in metadata['image-description']; KeyError when that key is not
\* (or no longer) in the metadata, TypeError when its value is not a string.
read_wsi_metadata(img) ==
    LET metadata == {k \in DOMAIN img.fields : img.fields[k].type \in {"str", "int", "float"}}
    IN  IF "image-description" \notin metadata
        THEN [raised |-> TRUE, mpp |-> None, mag |-> None]
        ELSE IF img.fields["image-description"].type # "str"
        THEN [raised |-> TRUE, mpp |-> None, mag |-> None]
        ELSE LET text == img.fields["image-description"].text
                 mpp == FloatOrNone(Search(text, "MPP"))
                 mag == FloatOrNone(Search(text, "AppMag"))
             IN  [raised |-> mpp.raised \/ mag.raised, mpp |-> mpp.value, mag |-> mag.value]

\* WSIReader.open_slide with WSIReader._build_pyramid: the DZI pyramid is
\* generated unless it is on disk, then the slide info is the metadata updated
\* with the DZI info.  A missing file makes _extract_slide_info_from_dzi(None)
\* raise, a file pyvips cannot open makes generate_dzi_image raise; these and
\* any exception of read_wsi_metadata are caught: (False, None).
WsiOpenSlide(rd, file, slide_path, dz) ==
    IF rd.slide_info # None
    THEN [rd |-> rd, ok |-> TRUE, info |-> rd.slide_info, built |-> FALSE, dzi |-> dz]
    ELSE IF file = None \/ ~Decodable(file[1])
    THEN [rd |-> rd, ok |-> FALSE, info |-> None, built |-> FALSE, dzi |-> dz]
    ELSE LET dz1 == IF slide_path \in DOMAIN dz THEN dz
                    ELSE (slide_path :> file[1]) @@ dz
             metadata == read_wsi_metadata(file[1])
             info == [mpp |-> metadata.mpp, mag |-> metadata.mag]
                     @@ DziInfo(dz1[slide_path])
         IN  IF metadata.raised
             THEN [rd |-> rd, ok |-> FALSE, info |-> None,
                   built |-> slide_path \notin DOMAIN dz, dzi |-> dz1]
             ELSE [rd |-> [rd EXCEPT !.slide_info = Some(info)], ok |-> TRUE,
                   info |-> Some(info), built |-> slide_path \notin DOMAIN dz,
                   dzi |-> dz1]

RECURSIVE DzHalve(_, _)
\* A side of the image after k halvings, rounding up.
DzHalve(d, k) == IF k <= 0 THEN d ELSE DzHalve((d + 1) \div 2, k - 1)

\* The tile files dzsave writes: directory new_level of the count levels, the
\* last one at full size, holds one file per tile_size square of that level.
DziTileExists(img, new_level, x, y) ==
    LET count == DzLevels(img.w, img.h, dzi_tile_size)
        level_w == DzHalve(img.w, count - 1 - new_level)
        level_h == DzHalve(img.h, count - 1 - new_level)
    IN  /\ new_level \in 0..(count - 1)
        /\ x >= 0 /\ y >= 0
        /\ x * dzi_tile_size < level_w
        /\ y * dzi_tile_size < level_h

\* f'{cache_dir}/{Path(slide_id).name}_files/{new_level}/{x}_{y}.jpg'
DziTilePath(slide_path, new_level, x, y) ==
    [dir |-> "cache_dir", file |-> <<slide_path, "files", new_level, x, y>>]

NewLevelIdentityMutant(level_count, level) == level

\* new_level of WSIReader.get_tile: the directory a requested level is read from.
NewLevel(level_count, level) == level_count - 1 - level

\* WSIReader.get_tile: subscripting a slide_info of None raises TypeError.
WsiGetTile(rd, tls, slide_path, x, y, level, size) ==
    IF rd.slide_info = None
    THEN [TileResult(rd, None, tls, FALSE, FALSE) EXCEPT !.raised = TRUE]
    ELSE LET new_level == NewLevel(rd.slide_info[1].level_count, level)
         IN  TileResult(rd, Some(DziTilePath(slide_path, new_level, x, y)), tls,
                        FALSE, FALSE)

(***************************************************************************)
(* WSIService and the slide routes.                                        *)
(***************************************************************************)
\* The default of LRUReaderCache's max_size, which WSIService relies on.
DefaultMaxSize == 5

\* The default of WSIService.get_tile's size parameter.
DefaultSize == 512

\* The uploaded slides of the main specification.
SlideLibrary ==
    (SlideA :> Some(Image(1025, 600)))
    @@ (SlideAB :> Some(Image(300, 200)))
    @@ (SlideW :> Some(WsiImage(1000, 750, AperioFields)))

RequestKey(slide_path, x, y, level, size) == <<slide_path, x, y, level, size>>

\* level_count of a handle's slide info, when it has one.
LevelsOf(rd) == IF rd.slide_info = None THEN None ELSE Some(rd.slide_info[1].level_count)

\* The handle add has popped (its local "_"), as add leaves it: add does
\* nothing to it.
Dropped(c, a) == IF a.evicted # None THEN Some(GetItem(c, a.evicted[1])) ELSE None

\* WSIService.open_slide: add, then the handle's open_slide.  watch says
\* whether the history records the info of a first successful call.
ServiceOpenSlide(slide_path, watch) ==
    \E a \in {add(cache, max_size, slide_path)} :
        /\ ~a.raised
        /\ \E o \in {IF a.ret[1].kind = "PngLikeReader"
                     THEN PngOpenSlide(a.ret[1], files[slide_path]) @@ [dzi |-> dzi]
                     ELSE WsiOpenSlide(a.ret[1], files[slide_path], slide_path, dzi)} :
               /\ cache' = SetItem(a.cache, slide_path, o.rd)
               /\ dzi' = o.dzi
               /\ lastCall' = [NoCall EXCEPT !.op = "open_slide",
                                  !.path = Some(slide_path),
                                  !.ret = <<o.ok, o.info>>,
                                  !.evicted = a.evicted, !.created = a.created,
                                  !.built = o.built, !.levels = LevelsOf(o.rd),
                                  !.dropped = Dropped(cache, a),
                                  !.prior = IF slide_path \in DOMAIN infos
                                            THEN Some(infos[slide_path]) ELSE None]
               /\ infos' = IF watch /\ o.ok /\ slide_path \notin DOMAIN infos
                           THEN (slide_path :> o.info[1]) @@ infos
                           ELSE infos
        /\ UNCHANGED <<max_size, accessOrder, history, files, tiles, served, workerVars>>

\* The shape of the level raster a written tile was cut from.
ShapeOf(rd, t) ==
    <<rd.pyramid[1][t.crop.lvl + 1].w, rd.pyramid[1][t.crop.lvl + 1].h>>

\* WSIService.get_tile: add, then the handle's get_tile.  watch says whether
\* the history records the returned path.
ServiceGetTile(slide_path, x, y, level, size, watch) ==
    \E a \in {add(cache, max_size, slide_path)} :
        /\ ~a.raised
        /\ \E g \in {IF a.ret[1].kind = "PngLikeReader"
                     THEN PngGetTile(a.ret[1], files[slide_path], tiles,
                                     slide_path, x, y, level, size)
                     ELSE WsiGetTile(a.ret[1], tiles, slide_path, x, y, level, size)},
              name \in {TileName(slide_path, level, x, y, size)},
              key \in {RequestKey(slide_path, x, y, level, size)} :
               /\ Cardinality(DOMAIN g.tiles) <= MaxTiles
               /\ watch => /\ g.ret # None
                           /\ key \notin DOMAIN served
                           /\ Cardinality(DOMAIN served) < MaxTiles
               /\ cache' = SetItem(a.cache, slide_path, g.rd)
               /\ tiles' = g.tiles
               /\ served' = IF watch THEN (key :> g.ret[1]) @@ served ELSE served
               /\ lastCall' = [NoCall EXCEPT !.op = "get_tile",
                                  !.path = Some(slide_path),
                                  !.x = x, !.y = y, !.level = level, !.size = size,
                                  !.ret = g.ret, !.raised = g.raised,
                                  !.evicted = a.evicted, !.created = a.created,
                                  !.built = g.built, !.wrote = g.wrote,
                                  !.dropped = Dropped(cache, a),
                                  !.cached = (a.ret[1].kind = "PngLikeReader"
                                              /\ name \in DOMAIN tiles),
                                  !.prior = IF key \in DOMAIN served
                                            THEN Some(served[key]) ELSE None,
                                  !.levels = LevelsOf(g.rd),
                                  !.shape = IF g.wrote
                                            THEN Some(ShapeOf(g.rd, g.tiles[name]))
                                            ELSE None,
                                  !.tile = IF g.wrote THEN Some(g.tiles[name]) ELSE None]
        /\ UNCHANGED <<max_size, accessOrder, history, files, dzi, infos, workerVars>>

Levels == 0..MaxLevel
Coords == 0..MaxXY
Sizes == {DefaultSize}

\* The service just constructed, over an upload directory holding the library.
Init ==
    /\ max_size \in 1..MaxCap
    /\ cache = <<>>
    /\ lastCall = NoCall
    /\ accessOrder = <<>>
    /\ history = <<>>
    /\ files = SlideLibrary
    /\ tiles = <<>>
    /\ dzi = <<>>
    /\ served = <<>>
    /\ infos = <<>>
    /\ pc = [w \in Workers |-> "idle"]
    /\ loc = [w \in Workers |-> NoLocals]

Next ==
    \/ \E p \in Slides : ServiceOpenSlide(p, FALSE)
    \/ \E p \in Slides, x \in Coords, y \in Coords, l \in Levels, sz \in Sizes,
          watch \in BOOLEAN :
          ServiceGetTile(p, x, y, l, sz, watch)

Spec == Init /\ [][Next]_vars

(***************************************************************************)
(* C3: once get_tile has returned a tile path for a key, every later       *)
(* get_tile with the same key returns the same path without building the   *)
(* pyramid and without rewriting the tile file, also when the reader       *)
(* handle of the slide has been evicted in between.                        *)
(***************************************************************************)
C3_SameTileAgain ==
    (lastCall.op = "get_tile" /\ lastCall.prior # None)
    => /\ lastCall.ret = lastCall.prior
       /\ ~lastCall.raised
       /\ ~lastCall.built
       /\ ~lastCall.wrote

\* The same statement for the slides read by PngLikeReader only.
C3_SameTileAgainPng ==
    (/\ lastCall.op = "get_tile"
     /\ lastCall.prior # None
     /\ lastCall.path[1].ext \in GENERAL_IMAGE_FORMATS)
    => /\ lastCall.ret = lastCall.prior
       /\ ~lastCall.raised
       /\ ~lastCall.built
       /\ ~lastCall.wrote

\* A key served before is requested again through a handle created anew.
C3_Witness ==
    /\ lastCall.op = "get_tile"
    /\ lastCall.prior # None
    /\ lastCall.created
    /\ lastCall.path[1].ext \in GENERAL_IMAGE_FORMATS
    /\ lastCall.ret = lastCall.prior

(***************************************************************************)
(* SpecPyr: one source image of any sampled size, opened through the       *)
(* service by either reader kind.                                          *)
(***************************************************************************)
SrcDims == {d \in 1..MaxDim : d % (min_dimension \div 4) \in {0, 1, (min_dimension \div 4) - 1}}

InitPyr ==
    /\ max_size = DefaultMaxSize
    /\ cache = <<>>
    /\ lastCall = NoCall
    /\ accessOrder = <<>>
    /\ history = <<>>
    /\ \E w \in SrcDims, h \in SrcDims :
          files = (SlideA :> Some(Image(w, h)))
                  @@ (SlideW :> Some(WsiImage(w, h, AperioFields)))
                  @@ (SlideAB :> None)
    /\ tiles = <<>>
    /\ dzi = <<>>
    /\ served = <<>>
    /\ infos = <<>>
    /\ pc = [w \in Workers |-> "idle"]
    /\ loc = [w \in Workers |-> NoLocals]

NextPyr == \E p \in {SlideA, SlideW} : ServiceOpenSlide(p, FALSE)

SpecPyr == InitPyr /\ [][NextPyr]_vars

\* The slide info a successful open_slide has just returned.
OpenedInfo == lastCall.ret[2][1]

Opened == lastCall.op = "open_slide" /\ lastCall.ret[1]

OpenedPng == Opened /\ lastCall.path = Some(SlideA)

(***************************************************************************)
(* C6: for every readable source image of width w >= 1 and height h >= 1   *)
(* the built pyramid has level_count >= 1, level 0 has dimensions (w, h)   *)
(* and downsample 1, and level_count equals the number of entries of       *)
(* level_dimensions and of the raster pyramid.                             *)
(***************************************************************************)
C6_PyramidHasLevelZero ==
    OpenedPng
    => /\ OpenedInfo.level_count >= 1
       /\ Len(OpenedInfo.level_dimensions) >= 1
       /\ OpenedInfo.level_dimensions[1] = <<files[SlideA][1].w, files[SlideA][1].h>>
       /\ OpenedInfo.level_downsamples[1] = 1
       /\ OpenedInfo.level_count = Len(OpenedInfo.level_dimensions)
       /\ OpenedInfo.level_count = Len(GetItem(cache, SlideA).pyramid[1])

(***************************************************************************)
(* C7: for every source image and every pair of consecutive pyramid        *)
(* levels L, L+1: width(L+1) <= width(L) and height(L+1) <= height(L).     *)
(***************************************************************************)
C7_DimensionsNonIncreasing ==
    Opened
    => \A l \in 1..(Len(OpenedInfo.level_dimensions) - 1) :
          /\ OpenedInfo.level_dimensions[l + 1][1] <= OpenedInfo.level_dimensions[l][1]
          /\ OpenedInfo.level_dimensions[l + 1][2] <= OpenedInfo.level_dimensions[l][2]

(***************************************************************************)
(* C8: for every source whose larger side is >= min_dimension, the last    *)
(* level of the pyramid has both dimensions <= min_dimension and every     *)
(* earlier level has at least one dimension > min_dimension.               *)
(***************************************************************************)
C8_StopsAtFirstSmallLevel ==
    (OpenedPng /\ Max(files[SlideA][1].w, files[SlideA][1].h) >= min_dimension)
    => LET dims == OpenedInfo.level_dimensions
           n == Len(dims)
       IN  /\ n >= 1
           /\ dims[n][1] <= min_dimension /\ dims[n][2] <= min_dimension
           /\ \A l \in 1..(n - 1) :
                 dims[l][1] > min_dimension \/ dims[l][2] > min_dimension

(***************************************************************************)
(* SpecTile: one general image with a short and a long side, and tile      *)
(* requests on an empty tile cache, at small tile sizes.                   *)
(***************************************************************************)
LongSides == {min_dimension \div 2 + 1, 2 * min_dimension + 1}

TileImages ==
    {Image(w, h) : w \in 1..MaxSide, h \in LongSides}
    \cup {Image(w, h) : w \in LongSides, h \in 1..MaxSide}

\* The index of the last tile of a side of length d, and the one after it.
EdgeCoords(d, size) == {(d - 1) \div size, (d - 1) \div size + 1}

TileCoords(d, size) ==
    (-1..MaxXY) \cup EdgeCoords(d, size) \cup EdgeCoords(min_dimension, size)

TileLevels == (0 - MaxLevel - 1)..(MaxLevel + 1)

InitTile ==
    /\ max_size = DefaultMaxSize
    /\ cache = <<>>
    /\ lastCall = NoCall
    /\ accessOrder = <<>>
    /\ history = <<>>
    /\ \E img \in TileImages :
          files = (SlideA :> Some(img)) @@ (SlideAB :> None) @@ (SlideW :> None)
    /\ tiles = <<>>
    /\ dzi = <<>>
    /\ served = <<>>
    /\ infos = <<>>
    /\ pc = [w \in Workers |-> "idle"]
    /\ loc = [w \in Workers |-> NoLocals]

\* Each run makes one tile request, through a new handle or an opened one.
TileRequest(x, y, level, size) ==
    /\ tiles = <<>>
    /\ lastCall.op # "get_tile"
    /\ ServiceGetTile(SlideA, x, y, level, size, FALSE)

NextTile ==
    \/ ServiceOpenSlide(SlideA, FALSE)
    \/ \E size \in 1..MaxSize, level \in TileLevels :
          \E x \in TileCoords(files[SlideA][1].w, size),
             y \in TileCoords(files[SlideA][1].h, size) :
             TileRequest(x, y, level, size)

SpecTile == InitTile /\ [][NextTile]_vars

\* A get_tile call on a tile that was not in the tile cache, on a slide whose
\* level_count is known.
Uncached ==
    /\ lastCall.op = "get_tile"
    /\ ~lastCall.cached
    /\ lastCall.levels # None

Failed == lastCall.ret = None /\ ~lastCall.wrote

(***************************************************************************)
(* C4: for every integer level outside [0, level_count), negative levels   *)
(* included, get_tile on a tile not yet cached fails (returns no tile) and *)
(* writes no file to the tile cache.                                       *)
(***************************************************************************)
C4_InvalidLevelFails ==
    (Uncached /\ lastCall.level \notin 0..(lastCall.levels[1] - 1)) => Failed

\* The same statement for the levels >= level_count only.
C4_LevelTooLargeFails ==
    (Uncached /\ lastCall.level >= 0 /\ lastCall.level >= lastCall.levels[1]) => Failed

\* An instance with in-range coordinates: a negative level addresses a level
\* from the end of the pyramid.
C4_NegativeLevelInRangeFails ==
    (/\ Uncached
     /\ lastCall.level < 0
     /\ lastCall.x = 0 /\ lastCall.y = 0)
    => Failed

(***************************************************************************)
(* C5: for every tile request with x < 0 or y < 0, or with x*size >= level *)
(* width or y*size >= level height, get_tile on a tile not yet cached      *)
(* fails (returns no tile) and writes no file to the tile cache.           *)
(***************************************************************************)
\* The shape of the level a valid level number addresses.
RequestedShape == GetItem(cache, SlideA).pyramid[1][lastCall.level + 1]

ValidLevel == Uncached /\ lastCall.level \in 0..(lastCall.levels[1] - 1)

C5_OutOfRangeFails ==
    (/\ ValidLevel
     /\ \/ lastCall.x < 0
        \/ lastCall.y < 0
        \/ lastCall.x * lastCall.size >= RequestedShape.w
        \/ lastCall.y * lastCall.size >= RequestedShape.h)
    => Failed

\* The same statement for the origins at or beyond the level's sides only.
C5_BeyondSidesFails ==
    (/\ ValidLevel
     /\ lastCall.x >= 0 /\ lastCall.y >= 0
     /\ \/ lastCall.x * lastCall.size >= RequestedShape.w
        \/ lastCall.y * lastCall.size >= RequestedShape.h)
    => Failed

(***************************************************************************)
(* C9: for every in-range tile request on a level of size W x H, the       *)
(* produced tile is exactly size x size; its pixel (i, j) equals level     *)
(* pixel (x*size + i, y*size + j) whenever that position is inside the     *)
(* level, and is white otherwise; interior tiles are an exact crop with no *)
(* padding.                                                                *)
(***************************************************************************)
InRange ==
    /\ ValidLevel
    /\ lastCall.x >= 0 /\ lastCall.y >= 0
    /\ lastCall.x * lastCall.size < RequestedShape.w
    /\ lastCall.y * lastCall.size < RequestedShape.h

C9_TileIsPaddedCrop ==
    InRange
    => /\ lastCall.wrote
       /\ LET t == lastCall.tile[1]
              size == lastCall.size
              W == RequestedShape.w
              H == RequestedShape.h
          IN  /\ t.w = size /\ t.h = size
              /\ \A i \in 0..(size - 1), j \in 0..(size - 1) :
                    LET c == lastCall.x * size + i
                        r == lastCall.y * size + j
                    IN  TilePixel(t, i, j) =
                            IF c < W /\ r < H
                            THEN LevelPixel(RequestedShape, c, r)
                            ELSE White
              /\ ((lastCall.x + 1) * size <= W /\ (lastCall.y + 1) * size <= H)
                    => ~t.padded

\* A tile cut at the corner of a level above level 0: padded on both sides.
C9_Witness ==
    /\ InRange
    /\ lastCall.wrote
    /\ lastCall.level >= 1
    /\ lastCall.size >= 2
    /\ lastCall.x >= 1 /\ lastCall.y >= 1
    /\ lastCall.tile[1].padded
    /\ lastCall.tile[1].crop.tw < lastCall.size
    /\ lastCall.tile[1].crop.th < lastCall.size

\* An interior tile, written without padding.
C9_WitnessInterior ==
    /\ InRange
    /\ lastCall.wrote
    /\ lastCall.size >= 2
    /\ lastCall.y >= 1
    /\ ~lastCall.tile[1].padded

(***************************************************************************)
(* SpecConc: workers call get and add on one cache with no lock; a step is *)
(* one statement of LRUReaderCache that reads or writes the dict.          *)
(***************************************************************************)
InitConc ==
    /\ max_size \in 1..MaxCap
    /\ cache = <<>>
    /\ lastCall = NoCall
    /\ accessOrder = <<>>
    /\ history = <<>>
    /\ files = [p \in Slides |-> None]
    /\ tiles = <<>>
    /\ dzi = <<>>
    /\ served = <<>>
    /\ infos = <<>>
    /\ pc = [w \in Workers |-> "idle"]
    /\ loc = [w \in Workers |-> NoLocals]

Goto(w, label) == pc' = [pc EXCEPT ![w] = label]

Frame == UNCHANGED <<max_size, lastCall, accessOrder, history, diskVars>>

\* A worker enters get(file_path) or add(file_path).
Begin(w, call, file_path) ==
    /\ pc[w] = "idle"
    /\ Goto(w, IF call = "get" THEN "get_test" ELSE "add_test")
    /\ loc' = [loc EXCEPT ![w] = [call |-> call, path |-> Some(file_path), ret |-> None]]
    /\ UNCHANGED cache
    /\ Frame

\* add: "if file_path in self.cache: return self.get(file_path)", else the new
\* reader is created.
AddTest(w) ==
    /\ pc[w] = "add_test"
    /\ Goto(w, IF Contains(cache, loc[w].path[1]) THEN "get_test" ELSE "add_len")
    /\ UNCHANGED <<cache, loc>>
    /\ Frame

\* add: "if len(self.cache) >= self.max_size"
AddLen(w) ==
    /\ pc[w] = "add_len"
    /\ Goto(w, IF IsFull(cache, max_size) THEN "add_pop" ELSE "add_set")
    /\ UNCHANGED <<cache, loc>>
    /\ Frame

\* add: "self.cache.popitem(last=False)", KeyError on an empty dict.
AddPop(w) ==
    /\ pc[w] = "add_pop"
    /\ IF cache = <<>>
       THEN Goto(w, "failed") /\ UNCHANGED cache
       ELSE Goto(w, "add_set") /\ cache' = popitem_first(cache).rest
    /\ UNCHANGED loc
    /\ Frame

\* add: "self.cache[file_path] = new_reader"
AddSet(w) ==
    /\ pc[w] = "add_set"
    /\ cache' = SetItem(cache, loc[w].path[1], Reader(loc[w].path[1]))
    /\ Goto(w, "add_move")
    /\ UNCHANGED loc
    /\ Frame

\* add: "self.cache.move_to_end(file_path)" and "return new_reader"; KeyError
\* when the key has left the dict.
AddMove(w) ==
    /\ pc[w] = "add_move"
    /\ IF Contains(cache, loc[w].path[1])
       THEN /\ cache' = move_to_end(cache, loc[w].path[1])
            /\ Goto(w, "done")
            /\ loc' = [loc EXCEPT ![w].ret = Some(Reader(loc[w].path[1]))]
       ELSE Goto(w, "failed") /\ UNCHANGED <<cache, loc>>
    /\ Frame

\* get: "if file_path not in self.cache: return None"
GetTest(w) ==
    /\ pc[w] = "get_test"
    /\ Goto(w, IF Contains(cache, loc[w].path[1]) THEN "get_move" ELSE "done")
    /\ UNCHANGED <<cache, loc>>
    /\ Frame

\* get: "self.cache.move_to_end(file_path)"
GetMove(w) ==
    /\ pc[w] = "get_move"
    /\ IF Contains(cache, loc[w].path[1])
       THEN Goto(w, "get_read") /\ cache' = move_to_end(cache, loc[w].path[1])
       ELSE Goto(w, "failed") /\ UNCHANGED cache
    /\ UNCHANGED loc
    /\ Frame

\* get: "return self.cache[file_path]"
GetRead(w) ==
    /\ pc[w] = "get_read"
    /\ IF Contains(cache, loc[w].path[1])
       THEN /\ Goto(w, "done")
            /\ loc' = [loc EXCEPT ![w].ret = Some(GetItem(cache, loc[w].path[1]))]
       ELSE Goto(w, "failed") /\ UNCHANGED loc
    /\ UNCHANGED cache
    /\ Frame

\* WSIService.open_slide / get_tile after add has returned the handle: the
\* handle's own open_slide or get_tile runs, outside the cache.
UseHandle(w) ==
    /\ pc[w] = "done"
    /\ loc[w].call = "add"
    /\ loc[w].ret # None
    /\ Goto(w, "in_use")
    /\ UNCHANGED <<cache, loc>>
    /\ Frame

\* The call has returned or raised; the worker takes the next request.
Return(w) ==
    /\ pc[w] \in {"done", "failed", "in_use"}
    /\ Goto(w, "idle")
    /\ loc' = [loc EXCEPT ![w] = NoLocals]
    /\ UNCHANGED cache
    /\ Frame

NextConc ==
    \E w \in Workers :
        \/ \E call \in {"get", "add"}, p \in Slides : Begin(w, call, p)
        \/ AddTest(w)
        \/ AddLen(w)
        \/ AddPop(w)
        \/ AddSet(w)
        \/ AddMove(w)
        \/ GetTest(w)
        \/ GetMove(w)
        \/ GetRead(w)
        \/ UseHandle(w)
        \/ Return(w)

SpecConc == InitConc /\ [][NextConc]_vars

(***************************************************************************)
(* C10: when several workers call get/add on the same cache concurrently,  *)
(* interleaved at statement granularity, the cache never holds more than   *)
(* max_size entries and no call fails or observes a partially updated map: *)
(* no call raises, and add returns a reader as it does when run alone.     *)
(***************************************************************************)
C10_ConcurrentCallsSafe ==
    /\ Len(cache) <= max_size
    /\ \A w \in Workers :
          /\ pc[w] # "failed"
          /\ (pc[w] = "done" /\ loc[w].call = "add") => loc[w].ret # None

\* The size bound alone.
C10_SizeBoundedConcurrently == Len(cache) <= max_size

\* No call raises.
C10_NoCallRaises == \A w \in Workers : pc[w] # "failed"

\* add returns a reader.
C10_AddReturnsReader ==
    \A w \in Workers : (pc[w] = "done" /\ loc[w].call = "add") => loc[w].ret # None

(***************************************************************************)
(* C11: when two workers concurrently request the same slide id that is    *)
(* not yet cached, at most one reader handle is created for that slide:    *)
(* two workers never both hold a reader they have just created for the     *)
(* same id and not yet inserted.                                           *)
(***************************************************************************)
Creating == {"add_len", "add_pop", "add_set"}

C11_OneHandlePerSlide ==
    \A w1 \in Workers, w2 \in Workers :
        (w1 # w2 /\ pc[w1] \in Creating /\ pc[w2] \in Creating)
            => loc[w1].path # loc[w2].path

(***************************************************************************)
(* C12: a reader handle is never evicted from the cache while an           *)
(* open_slide or get_tile call on that handle is still in progress in      *)
(* another worker.                                                         *)
(***************************************************************************)
C12_InUseHandleStaysResident ==
    \A w \in Workers : pc[w] = "in_use" => Contains(cache, loc[w].path[1])

(***************************************************************************)
(* SpecRace: workers run PngLikeReader.get_tile on one opened slide; a     *)
(* step is one access to the tile cache directory.  cv2.imwrite writes the *)
(* cache file in place: the file exists from the moment it is opened for   *)
(* writing and is complete when imwrite has finished.                      *)
(***************************************************************************)
RaceImage == Image(min_dimension \div 2 + 1, 1)

RaceLevels == 0..MaxLevel

\* The handle of the slide, opened.
RaceReader == PngOpenSlide(open_slide(SlideA), Some(RaceImage)).rd

InitRace ==
    /\ max_size = DefaultMaxSize
    /\ cache = <<[key |-> SlideA, rd |-> RaceReader]>>
    /\ lastCall = NoCall
    /\ accessOrder = <<>>
    /\ history = <<>>
    /\ files = [p \in Slides |-> IF p = SlideA THEN Some(RaceImage) ELSE None]
    /\ tiles = <<>>
    /\ dzi = <<>>
    /\ served = <<>>
    /\ infos = <<>>
    /\ pc = [w \in Workers |-> "idle"]
    /\ loc = [w \in Workers |-> NoLocals]

RaceFrame ==
    UNCHANGED <<max_size, cache, lastCall, accessOrder, history, files, dzi, served,
                infos>>

\* A worker enters get_tile(slide_path, x, y, level, size): the cache file name.
TileBegin(w, x, y, level, size) ==
    /\ pc[w] = "idle"
    /\ Goto(w, "tile_exists")
    /\ loc' = [loc EXCEPT ![w] =
                  [call |-> "get_tile", path |-> Some(SlideA), ret |-> None,
                   name |-> TileName(SlideA, level, x, y, size),
                   x |-> x, y |-> y, level |-> level, size |-> size]]
    /\ UNCHANGED tiles
    /\ RaceFrame

\* "if cache_file.exists(): return str(cache_file)"
TileExists(w) ==
    /\ pc[w] = "tile_exists"
    /\ IF loc[w].name \in DOMAIN tiles
       THEN /\ Goto(w, "done")
            /\ loc' = [loc EXCEPT ![w].ret = Some(TilePath(loc[w].name))]
       ELSE Goto(w, "tile_extract") /\ UNCHANGED loc
    /\ UNCHANGED tiles
    /\ RaceFrame

\* The level test, the range test, crop and padding: in memory only.
TileExtract(w) ==
    /\ pc[w] = "tile_extract"
    /\ \E g \in {PngGetTile(RaceReader, Some(RaceImage), <<>>, SlideA,
                            loc[w].x, loc[w].y, loc[w].level, loc[w].size)} :
           Goto(w, IF g.ret = None THEN "done" ELSE "tile_write")
    /\ UNCHANGED <<tiles, loc>>
    /\ RaceFrame

\* cv2.imwrite opens the cache file for writing: it exists, truncated.
TileWriteOpen(w) ==
    /\ pc[w] = "tile_write"
    /\ tiles' = (loc[w].name :> [complete |-> FALSE]) @@ tiles
    /\ Goto(w, "tile_writing")
    /\ UNCHANGED loc
    /\ RaceFrame

\* cv2.imwrite has written the whole tile.
TileWriteClose(w) ==
    /\ pc[w] = "tile_writing"
    /\ tiles' = (loc[w].name :> [complete |-> TRUE]) @@ tiles
    /\ Goto(w, "tile_return")
    /\ UNCHANGED loc
    /\ RaceFrame

\* cv2.imwrite fails midway: it returns False, which get_tile ignores, or it
\* raises, which get_tile catches; the partial file stays.
TileWriteFail(w, raises) ==
    /\ pc[w] = "tile_writing"
    /\ Goto(w, IF raises THEN "done" ELSE "tile_return")
    /\ UNCHANGED <<tiles, loc>>
    /\ RaceFrame

\* "return str(cache_file)"
TileReturn(w) ==
    /\ pc[w] = "tile_return"
    /\ Goto(w, "done")
    /\ loc' = [loc EXCEPT ![w].ret = Some(TilePath(loc[w].name))]
    /\ UNCHANGED tiles
    /\ RaceFrame

\* get_tile has returned; the worker takes the next request.
TileDone(w) ==
    /\ pc[w] = "done"
    /\ Goto(w, "idle")
    /\ loc' = [loc EXCEPT ![w] = NoLocals]
    /\ UNCHANGED tiles
    /\ RaceFrame

NextRace ==
    \E w \in Workers :
        \/ \E x \in Coords, l \in RaceLevels : TileBegin(w, x, 0, l, MaxSize)
        \/ TileExists(w)
        \/ TileExtract(w)
        \/ TileWriteOpen(w)
        \/ TileWriteClose(w)
        \/ \E raises \in BOOLEAN : TileWriteFail(w, raises)
        \/ TileReturn(w)
        \/ TileDone(w)

SpecRace == InitRace /\ [][NextRace]_vars

(***************************************************************************)
(* C13: a tile cache file is never observable as present by a concurrent   *)
(* get_tile while its content is still incomplete: a request that returns  *)
(* the file's path gets a fully written tile, and a request that fails     *)
(* leaves no incomplete file for its key.                                  *)
(***************************************************************************)
C13_ServedTileComplete ==
    \A w \in Workers :
        pc[w] = "done" =>
            IF loc[w].ret # None
            THEN loc[w].name \in DOMAIN tiles /\ tiles[loc[w].name].complete
            ELSE loc[w].name \in DOMAIN tiles => tiles[loc[w].name].complete

\* The same for requests served while no write of that file has failed: only
\* the race between a writer and a reader of the file is left.
C13_ServedTileCompleteNoWriteFailure ==
    \A w \in Workers :
        (pc[w] = "done" /\ loc[w].ret # None /\ loc[w].name \in DOMAIN tiles
         /\ \E v \in Workers : v # w /\ pc[v] = "tile_writing"
                               /\ loc[v].name = loc[w].name)
            => tiles[loc[w].name].complete

(***************************************************************************)
(* C14: a get_tile call on a reader handle whose slide has not been opened *)
(* yet (a handle just created, or re-created after eviction) opens the     *)
(* slide before it resolves a tile that is not on disk, and for both       *)
(* reader kinds it never raises to the caller.                             *)
(***************************************************************************)
C14_FreshHandleNeverRaises ==
    (lastCall.op = "get_tile" /\ lastCall.created)
    => /\ ~lastCall.raised
       /\ (lastCall.ret # None /\ ~lastCall.cached) => lastCall.levels # None

\* The same statement for the slides read by PngLikeReader only.
C14_FreshHandleNeverRaisesPng ==
    (/\ lastCall.op = "get_tile"
     /\ lastCall.created
     /\ lastCall.path[1].ext \in GENERAL_IMAGE_FORMATS)
    => /\ ~lastCall.raised
       /\ (lastCall.ret # None /\ ~lastCall.cached) => lastCall.levels # None

(***************************************************************************)
(* C15: whenever get_tile returns a tile path, for either reader kind, a   *)
(* persisted tile file exists at that path at the moment of return.        *)
(***************************************************************************)
\* Whether the path get_tile returned for the slide names a file on disk.
TileFileExists(slide_path, tile_path) ==
    IF slide_path.ext \in GENERAL_IMAGE_FORMATS
    THEN tile_path.file \in DOMAIN tiles
    ELSE /\ slide_path \in DOMAIN dzi
         /\ DziTileExists(dzi[slide_path], tile_path.file[3],
                          tile_path.file[4], tile_path.file[5])

C15_ReturnedTileExists ==
    (lastCall.op = "get_tile" /\ lastCall.ret # None)
    => TileFileExists(lastCall.path[1], lastCall.ret[1])

\* The same statement for the slides read by PngLikeReader only.
C15_ReturnedTileExistsPng ==
    (/\ lastCall.op = "get_tile"
     /\ lastCall.ret # None
     /\ lastCall.path[1].ext \in GENERAL_IMAGE_FORMATS)
    => TileFileExists(lastCall.path[1], lastCall.ret[1])

(***************************************************************************)
(* C16: get(id) on a resident id returns the resident handle and makes it  *)
(* the most recently used, leaving the set of entries and the relative     *)
(* order of the others unchanged; get(id) on a non-resident id returns     *)
(* None and leaves the cache unchanged, creating nothing.                  *)
(***************************************************************************)
C16_Step ==
    \A p \in Slides :
        history' = Append(history, <<"get", p>>)
        => IF Contains(cache, p)
           THEN /\ lastCall'.ret = Some(GetItem(cache, p))
                /\ ~lastCall'.created
                /\ Len(cache') = Len(cache)
                /\ cache'[Len(cache')] = [key |-> p, rd |-> GetItem(cache, p)]
                /\ Without(cache', p) = Without(cache, p)
           ELSE /\ lastCall'.ret = None
                /\ ~lastCall'.created
                /\ cache' = cache

C16_GetFrame == [][C16_Step]_vars

\* get has just returned a resident handle that another key was used after.
C16_Witness ==
    /\ lastCall.op = "get"
    /\ lastCall.ret # None
    /\ Len(cache) >= 2
    /\ Len(history) >= 2
    /\ history[Len(history) - 1][1] = "add"
    /\ history[Len(history) - 1][2] # lastCall.path[1]
    /\ Contains(cache, history[Len(history) - 1][2])
    /\ cache[Len(cache)].key = lastCall.path[1]

(***************************************************************************)
(* C17: add(id) on a resident id returns the very handle already cached,   *)
(* creates no new handle, evicts nothing (also when the cache is full) and *)
(* makes id the most recently used.                                        *)
(***************************************************************************)
C17_Step ==
    \A p \in Slides :
        (history' = Append(history, <<"add", p>>) /\ Contains(cache, p))
        => /\ lastCall'.ret = Some(GetItem(cache, p))
           /\ ~lastCall'.created
           /\ ~lastCall'.raised
           /\ lastCall'.evicted = None
           /\ Len(cache') = Len(cache)
           /\ cache'[Len(cache')] = [key |-> p, rd |-> GetItem(cache, p)]
           /\ Without(cache', p) = Without(cache, p)

C17_AddResident == [][C17_Step]_vars

\* add has just been called on the least recently used id of a full cache.
C17_Witness ==
    /\ lastCall.op = "add"
    /\ ~lastCall.created
    /\ lastCall.ret # None
    /\ max_size >= 2
    /\ Len(cache) = max_size
    /\ Len(history) >= 3
    /\ history[Len(history) - 1][1] = "add"
    /\ history[Len(history) - 1][2] # lastCall.path[1]
    /\ Contains(cache, history[Len(history) - 1][2])
    /\ cache[Len(cache)].key = lastCall.path[1]

(***************************************************************************)
(* C18: constructing the reader cache with a capacity < 1 fails with a     *)
(* configuration error at construction, so that every cache that exists    *)
(* has a capacity of at least 1.                                           *)
(***************************************************************************)
C18_CapacityAtLeastOne == max_size >= 1

\* No cache with capacity < 1 ever completes an add call.
C18_NoAddBelowOne ==
    max_size < 1 => ~(lastCall.op = "add" /\ ~lastCall.raised)

(***************************************************************************)
(* SpecInfo: slides opened again and again through the service, with a     *)
(* reader cache small enough to evict; the whole-slide file carries any of *)
(* the header variants.                                                    *)
(***************************************************************************)
NoFields == [k \in {} |-> BlobField]

FieldSets ==
    {NoFields, Described(BlobField), Described(IntField)}
    \cup {Described(StrField(t)) : t \in {AperioText, PlainText, WordText, DotText}}

InitInfo ==
    /\ max_size \in 1..MaxCap
    /\ cache = <<>>
    /\ lastCall = NoCall
    /\ accessOrder = <<>>
    /\ history = <<>>
    /\ \E f \in FieldSets :
          files = (SlideA :> Some(Image(2 * min_dimension + 1, min_dimension + 1)))
                  @@ (SlideAB :> Some(Image(min_dimension, 1)))
                  @@ (SlideW :> Some(WsiImage(2 * min_dimension + 1, min_dimension, f)))
    /\ tiles = <<>>
    /\ dzi = <<>>
    /\ served = <<>>
    /\ infos = <<>>
    /\ pc = [w \in Workers |-> "idle"]
    /\ loc = [w \in Workers |-> NoLocals]

NextInfo == \E p \in Slides : ServiceOpenSlide(p, TRUE)

SpecInfo == InitInfo /\ [][NextInfo]_vars

(***************************************************************************)
(* C19: for a slide whose file is unchanged, two successful open_slide     *)
(* calls return equal slide info, whether the handle stayed resident       *)
(* between them (then the pyramid is not rebuilt) or was evicted and       *)
(* re-created in between.                                                  *)
(***************************************************************************)
C19_SameInfoAgain ==
    (lastCall.op = "open_slide" /\ lastCall.ret[1] /\ lastCall.prior # None)
    => /\ lastCall.ret[2] = lastCall.prior
       /\ ~lastCall.created => ~lastCall.built

\* A slide opened before is opened again through a handle created anew, and
\* its pyramid is built again.
C19_Witness ==
    /\ lastCall.op = "open_slide"
    /\ lastCall.ret[1]
    /\ lastCall.prior # None
    /\ lastCall.created
    /\ lastCall.built
    /\ lastCall.ret[2] = lastCall.prior

\* A slide opened before is opened again through its resident handle.
C19_WitnessResident ==
    /\ lastCall.op = "open_slide"
    /\ lastCall.ret[1]
    /\ lastCall.prior # None
    /\ ~lastCall.created
    /\ lastCall.ret[2] = lastCall.prior

(***************************************************************************)
(* C20: metadata extraction never fails because the descriptive text is    *)
(* missing or has no match: when the image has no 'image-description'      *)
(* field (or it was dropped as non-scalar), or the MPP/AppMag pattern does *)
(* not match, mpp and magnification are null and open_slide of the         *)
(* whole-slide reader still succeeds.                                      *)
(***************************************************************************)
WsiFields == files[SlideW][1].fields

\* No 'image-description' among the fields, or one whose value is not scalar.
DescriptionMissing ==
    \/ "image-description" \notin DOMAIN WsiFields
    \/ WsiFields["image-description"].type = "blob"

\* A descriptive text in which the pattern of key has no match.
NoMatch(key) ==
    /\ "image-description" \in DOMAIN WsiFields
    /\ WsiFields["image-description"].type = "str"
    /\ Search(WsiFields["image-description"].text, key) = None

OpenedWsi == lastCall.op = "open_slide" /\ lastCall.path = Some(SlideW)

C20_MetadataNeverFails ==
    OpenedWsi =>
        /\ DescriptionMissing =>
              /\ lastCall.ret[1]
              /\ lastCall.ret[2][1].mpp = None
              /\ lastCall.ret[2][1].mag = None
        /\ NoMatch("MPP") => lastCall.ret[1] /\ lastCall.ret[2][1].mpp = None
        /\ NoMatch("AppMag") => lastCall.ret[1] /\ lastCall.ret[2][1].mag = None

\* The same statement for a descriptive text that is present: a pattern
\* without a match gives null and open_slide succeeds.
C20_NoMatchGivesNull ==
    OpenedWsi =>
        /\ NoMatch("MPP") => lastCall.ret[1] /\ lastCall.ret[2][1].mpp = None
        /\ NoMatch("AppMag") => lastCall.ret[1] /\ lastCall.ret[2][1].mag = None

(***************************************************************************)
(* C26: a tile request that is served from the on-disk tile cache does not *)
(* consult or modify the reader cache: it inserts no handle, evicts no     *)
(* handle and changes no recency order.                                    *)
(***************************************************************************)
C26_Step == (lastCall'.op = "get_tile" /\ lastCall'.cached) => cache' = cache

C26_DiskHitLeavesReaderCache == [][C26_Step]_vars

\* The same statement for the set of resident handles only: a tile served
\* from disk inserts no handle and evicts none.
C26_DiskHitKeepsResidents ==
    (lastCall.op = "get_tile" /\ lastCall.cached)
    => ~lastCall.created /\ lastCall.evicted = None

(***************************************************************************)
(* C27: for every pyramid level L the reported downsample is 2^L and it is *)
(* the ratio of the source size to the level size: width(L) =              *)
(* floor(width(0) / 2^L) and height(L) = floor(height(0) / 2^L), also for  *)
(* levels whose halved size falls below min_dimension.                     *)
(***************************************************************************)
C27_DownsampleMatchesDimensions ==
    OpenedPng
    => \A l \in 1..Len(OpenedInfo.level_dimensions) :
          /\ OpenedInfo.level_downsamples[l] = Pow2(l - 1)
          /\ OpenedInfo.level_dimensions[l][1]
                = OpenedInfo.level_dimensions[1][1] \div OpenedInfo.level_downsamples[l]
          /\ OpenedInfo.level_dimensions[l][2]
                = OpenedInfo.level_dimensions[1][2] \div OpenedInfo.level_downsamples[l]

\* The reported downsample alone is 2^L.
C27_DownsampleIsPowerOfTwo ==
    OpenedPng
    => \A l \in 1..Len(OpenedInfo.level_dimensions) :
          OpenedInfo.level_downsamples[l] = Pow2(l - 1)

(***************************************************************************)
(* C28: when add evicts a handle, the resources the handle owns (pyramid   *)
(* rasters, slide info) are released as part of that same add call: an     *)
(* evicted handle no longer holds its pyramid once add returns.            *)
(***************************************************************************)
C28_EvictedHandleReleased ==
    lastCall.dropped # None
    => /\ lastCall.dropped[1].pyramid = None
       /\ lastCall.dropped[1].slide_info = None

(***************************************************************************)
(* C29: for the whole-slide reader a request at level L of a slide with    *)
(* level_count levels is resolved in the pyramid directory                 *)
(* level_count - 1 - L; for L in [0, level_count) that directory is in     *)
(* [0, level_count) and maps back to L, and the directory of level 0 holds *)
(* the raster whose size is level_dimensions[0] of the slide info.         *)
(***************************************************************************)
C29_Dir == lastCall.ret[1].file[3]

C29_WsiTileCall ==
    /\ lastCall.op \in {"get_tile", "tile"}
    /\ lastCall.path = Some(SlideW)
    /\ lastCall.ret # None
    /\ lastCall.levels # None
    /\ lastCall.level \in 0..(lastCall.levels[1] - 1)

C29_LevelRemap ==
    C29_WsiTileCall =>
        LET count == lastCall.levels[1]
            info == GetItem(cache, SlideW).slide_info[1]
            img == dzi[SlideW]
        IN  /\ C29_Dir = count - 1 - lastCall.level
            /\ C29_Dir \in 0..(count - 1)
            /\ count - 1 - C29_Dir = lastCall.level
            /\ \A l \in 0..(count - 1) :
                  (count - 1 - l = C29_Dir) => l = lastCall.level
            /\ lastCall.level = 0 =>
                  /\ DzHalve(img.w, count - 1 - C29_Dir) = info.level_dimensions[1][1]
                  /\ DzHalve(img.h, count - 1 - C29_Dir) = info.level_dimensions[1][2]

C29_Witness ==
    /\ C29_WsiTileCall
    /\ lastCall.levels[1] >= 2
    /\ lastCall.level = 0
    /\ C29_Dir = lastCall.levels[1] - 1

C29_WitnessCoarse == C29_WsiTileCall /\ lastCall.level = 1 /\ C29_Dir = 0

(***************************************************************************)
(* The slide routes: upload, info, tile and delete over the upload         *)
(* directory, the readers' cache directory and the service's reader cache. *)
(***************************************************************************)
UPLOAD_DIR == "static/slides"
CACHE_DIR == "static/tiles"

\* A second upload with the base name of a.png.
SlideAJ == Path(<<"a">>, ".jpg")

RouteSlides == {SlideA, SlideAJ, SlideW}

\* The non-empty contents a client uploads under a name.
Contents(slide_id) ==
    IF slide_id = SlideA THEN {Image(1025, 600), Image(600, 600), Unreadable}
    ELSE IF slide_id.ext \in GENERAL_IMAGE_FORMATS THEN {Image(600, 600)}
    ELSE {WsiImage(1000, 750, AperioFields), Unreadable}

\* The tile requests of the routes: <<x, y, level>>, at the two levels of the
\* slides, at a level the slides do not have, and at a column beyond the raster.
RouteSize == 256
NoSuchLevel == 5
FarColumn == 9
RouteRequests == {<<0, 0, 0>>, <<0, 0, 1>>, <<0, 0, NoSuchLevel>>, <<FarColumn, 0, 0>>}

ExistsAlwaysMutant(fls, slide_id) == TRUE

\* slide_path.exists() for slide_path = UPLOAD_DIR / slide_id
Exists(fls, slide_id) == fls[slide_id] # None

UnlinkNothingMutant(fls, slide_id) == fls

\* slide_path.unlink()
Unlink(fls, slide_id) == [fls EXCEPT ![slide_id] = None]

\* wsi_service.open_slide(str(slide_path)) on reader cache c, upload directory
\* fls and DZI pyramids dz.
OpenSlideCall(c, fls, dz, slide_id) ==
    LET a == add(c, max_size, slide_id)
    IN  IF a.raised
        THEN [cache |-> c, ok |-> FALSE, info |-> None, dzi |-> dz, raised |-> TRUE]
        ELSE LET o == IF a.ret[1].kind = "PngLikeReader"
                      THEN PngOpenSlide(a.ret[1], fls[slide_id]) @@ [dzi |-> dz]
                      ELSE WsiOpenSlide(a.ret[1], fls[slide_id], slide_id, dz)
             IN  [cache |-> SetItem(a.cache, slide_id, o.rd), ok |-> o.ok,
                  info |-> o.info, dzi |-> o.dzi, raised |-> FALSE]

\* wsi_service.get_tile(str(slide_path), x, y, level, size)
GetTileCall(c, fls, tls, slide_id, x, y, level, size) ==
    LET a == add(c, max_size, slide_id)
    IN  IF a.raised
        THEN [cache |-> c, ret |-> None, tiles |-> tls, wrote |-> FALSE,
              raised |-> TRUE]
        ELSE LET g == IF a.ret[1].kind = "PngLikeReader"
                      THEN PngGetTile(a.ret[1], fls[slide_id], tls, slide_id,
                                      x, y, level, size)
                      ELSE WsiGetTile(a.ret[1], tls, slide_id, x, y, level, size)
             IN  [cache |-> SetItem(a.cache, slide_id, g.rd), ret |-> g.ret,
                  tiles |-> g.tiles, wrote |-> g.wrote, raised |-> g.raised]

RouteCall(op, slide_id, status, ret) ==
    [NoCall EXCEPT !.op = op, !.path = Some(slide_id), !.status = status, !.ret = ret]

\* upload_slide: content is None for an empty body; write_ok says whether
\* writing the bytes succeeds.  A file already at the path is not rewritten.
\* A failed save removes the file and answers 500, a failed validation
\* removes it and answers 400.
upload_slide(slide_id, content, write_ok) ==
    \E saved \in {Exists(files, slide_id) \/ (content # None /\ write_ok)},
       files1 \in {IF Exists(files, slide_id) THEN files
                   ELSE [files EXCEPT ![slide_id] = content]} :
        IF ~saved
        THEN /\ files' = Unlink(files, slide_id)
             /\ lastCall' = RouteCall("upload", slide_id, 500, None)
             /\ UNCHANGED <<cache, dzi>>
        ELSE \E o \in {OpenSlideCall(cache, files1, dzi, slide_id)} :
             /\ cache' = o.cache
             /\ dzi' = o.dzi
             /\ IF o.ok
                THEN /\ files' = files1
                     /\ lastCall' = RouteCall("upload", slide_id, 200,
                                       Some([slideId |-> slide_id, info |-> o.info[1]]))
                ELSE /\ files' = Unlink(files1, slide_id)
                     /\ lastCall' = RouteCall("upload", slide_id, 400, None)

\* get_slide_info
get_slide_info(slide_id) ==
    IF ~Exists(files, slide_id)
    THEN /\ lastCall' = RouteCall("info", slide_id, 404, None)
         /\ UNCHANGED <<cache, dzi>>
    ELSE \E o \in {OpenSlideCall(cache, files, dzi, slide_id)} :
             /\ cache' = o.cache
             /\ dzi' = o.dzi
             /\ lastCall' = IF o.ok THEN RouteCall("info", slide_id, 200, o.info)
                            ELSE RouteCall("info", slide_id, 500, None)

\* get_slide_tile: an unknown slide and a tile the reader could not give are
\* both answered 404, an exception 500.
get_slide_tile(slide_id, x, y, level, size) ==
    IF ~Exists(files, slide_id)
    THEN /\ lastCall' = [RouteCall("tile", slide_id, 404, None)
                           EXCEPT !.x = x, !.y = y, !.level = level, !.size = size]
         /\ UNCHANGED <<cache, tiles, served>>
    ELSE \E g \in {GetTileCall(cache, files, tiles, slide_id, x, y, level, size)},
            name \in {TileName(slide_id, level, x, y, size)} :
         \E status \in {IF g.raised THEN 500 ELSE IF g.ret = None THEN 404 ELSE 200} :
             /\ cache' = g.cache
             /\ tiles' = g.tiles
             /\ served' = IF g.wrote THEN (name :> slide_id) @@ served ELSE served
             /\ lastCall' = [RouteCall("tile", slide_id, status, g.ret)
                               EXCEPT !.x = x, !.y = y, !.level = level, !.size = size,
                                      !.wrote = g.wrote,
                                      !.levels = LevelsOf(GetItem(g.cache, slide_id))]

\* CACHE_DIR.glob(f"{stem}_*") on a file name given by its "_"-separated segments.
GlobMatches(stem, name) == Len(name) > Len(stem) /\ SubSeq(name, 1, Len(stem)) = stem

GlobbedAnyDirMutant(tls, slide_id) ==
    {n \in DOMAIN tls : GlobMatches(slide_id.stem, n)}

\* The tile files delete_slide removes: those of CACHE_DIR the pattern matches.
Globbed(tls, slide_id) ==
    {n \in DOMAIN tls : TilePath(n).dir = CACHE_DIR /\ GlobMatches(slide_id.stem, n)}

\* delete_slide: the source file is unlinked, then the matching files of
\* CACHE_DIR; the reader cache and the DZI pyramids are left alone.
delete_slide(slide_id) ==
    IF ~Exists(files, slide_id)
    THEN /\ lastCall' = RouteCall("delete", slide_id, 404, None)
         /\ UNCHANGED <<files, tiles>>
    ELSE /\ files' = Unlink(files, slide_id)
         /\ tiles' = [n \in DOMAIN tiles \ Globbed(tiles, slide_id) |-> tiles[n]]
         /\ lastCall' = RouteCall("delete", slide_id, 200, None)

InitRoutes ==
    /\ max_size = DefaultMaxSize
    /\ cache = <<>>
    /\ lastCall = NoCall
    /\ accessOrder = <<>>
    /\ history = <<>>
    /\ files = [p \in RouteSlides |-> None]
    /\ tiles = <<>>
    /\ dzi = <<>>
    /\ served = <<>>
    /\ infos = <<>>
    /\ pc = [w \in Workers |-> "idle"]
    /\ loc = [w \in Workers |-> NoLocals]

NextRoutes ==
    \/ /\ \E p \in RouteSlides, write_ok \in BOOLEAN :
            \E content \in {None} \cup {Some(img) : img \in Contents(p)} :
                upload_slide(p, content, write_ok)
       /\ UNCHANGED <<max_size, accessOrder, history, tiles, served, infos, workerVars>>
    \/ /\ \E p \in RouteSlides : get_slide_info(p)
       /\ UNCHANGED <<max_size, accessOrder, history, files, tiles, served, infos,
                      workerVars>>
    \/ /\ \E p \in RouteSlides, r \in RouteRequests :
            get_slide_tile(p, r[1], r[2], r[3], RouteSize)
       /\ UNCHANGED <<max_size, accessOrder, history, files, dzi, infos, workerVars>>
    \/ /\ \E p \in RouteSlides : delete_slide(p)
       /\ UNCHANGED <<max_size, cache, accessOrder, history, dzi, served, infos,
                      workerVars>>

SpecRoutes == InitRoutes /\ [][NextRoutes]_vars

(***************************************************************************)
(* C25: an info, tile or delete request for a slide id that has no file in *)
(* the upload directory (never uploaded, or deleted) is answered not-found *)
(* (404) and leaves the reader cache, the tile files and the DZI pyramids  *)
(* as they were.                                                           *)
(***************************************************************************)
C25_Step ==
    (/\ lastCall'.op \in {"info", "tile", "delete"}
     /\ files[lastCall'.path[1]] = None)
    => /\ lastCall'.status = 404
       /\ cache' = cache
       /\ tiles' = tiles
       /\ dzi' = dzi

C25_MissingSlideNotFound == [][C25_Step]_vars

\* A request answered not-found for a deleted slide whose handle is resident
\* and whose tile file is still on disk.
C25_Witness ==
    /\ lastCall.op \in {"info", "tile"}
    /\ lastCall.status = 404
    /\ files[lastCall.path[1]] = None
    /\ Contains(cache, lastCall.path[1])
    /\ GetItem(cache, lastCall.path[1]).slide_info # None
    /\ tiles # <<>>

(***************************************************************************)
(* C21: after a successful DELETE of slide S neither the source file nor   *)
(* any cached artifact of S remains: no tile file written for S and no DZI *)
(* pyramid generated for S, for both reader kinds.                         *)
(***************************************************************************)
C21_Deleted == lastCall.op = "delete" /\ lastCall.status = 200

C21_DeleteRemovesArtifacts ==
    C21_Deleted =>
        /\ files[lastCall.path[1]] = None
        /\ \A n \in DOMAIN tiles : served[n] # lastCall.path[1]
        /\ lastCall.path[1] \notin DOMAIN dzi

\* The parts of C21, one by one.
C21_DeleteRemovesSource == C21_Deleted => files[lastCall.path[1]] = None

C21_DeleteRemovesTiles ==
    C21_Deleted => \A n \in DOMAIN tiles : served[n] # lastCall.path[1]

C21_DeleteRemovesPyramid == C21_Deleted => lastCall.path[1] \notin DOMAIN dzi

(***************************************************************************)
(* C22: the tile cache file name is injective in (slide, level, x, y,      *)
(* size): requests that differ in the slide, also two uploads with one     *)
(* base name and different extensions, or in a coordinate never resolve to *)
(* the same cache file, so a tile returned for slide S is one that was     *)
(* computed for S.                                                         *)
(***************************************************************************)
C22_TileFromOwnSlide ==
    (/\ lastCall.op = "tile"
     /\ lastCall.status = 200
     /\ lastCall.path[1].ext \in GENERAL_IMAGE_FORMATS)
    => served[lastCall.ret[1].file] = lastCall.path[1]

C22_TileNameInjective ==
    \A p \in RouteSlides, q \in RouteSlides, r \in RouteRequests, t \in RouteRequests :
        TileName(p, r[3], r[1], r[2], RouteSize) = TileName(q, t[3], t[1], t[2], RouteSize)
        => p = q /\ r = t

(***************************************************************************)
(* C23: an upload that ends in an error (empty content, failed write,      *)
(* failed validation) leaves no file at the slide's path and answers with  *)
(* an error status; a successful upload leaves the file in place and       *)
(* returns the slide id.                                                   *)
(***************************************************************************)
C23_UploadOutcome ==
    lastCall.op = "upload" =>
        IF lastCall.status = 200
        THEN /\ files[lastCall.path[1]] # None
             /\ lastCall.ret # None
             /\ lastCall.ret[1].slideId = lastCall.path[1]
        ELSE /\ lastCall.status \in {400, 500}
             /\ lastCall.ret = None
             /\ files[lastCall.path[1]] = None

\* An upload whose validation failed.
C23_Witness ==
    /\ lastCall.op = "upload"
    /\ lastCall.status = 400
    /\ files[lastCall.path[1]] = None

\* An upload whose save failed, and one that succeeded.
C23_WitnessSaveFailed == lastCall.op = "upload" /\ lastCall.status = 500

C23_WitnessSaved ==
    /\ lastCall.op = "upload"
    /\ lastCall.status = 200
    /\ files[lastCall.path[1]] # None

(***************************************************************************)
(* C24: a tile request on an existing slide at a level the slide does not  *)
(* have or at coordinates outside the raster is answered with a            *)
(* client-error status other than the not-found status (404) an unknown    *)
(* slide id gets.                                                          *)
(***************************************************************************)
C24_InvalidRequest ==
    /\ lastCall.op = "tile"
    /\ files[lastCall.path[1]] # None
    /\ (lastCall.level = NoSuchLevel \/ lastCall.x = FarColumn)

C24_InvalidTileIsClientError ==
    C24_InvalidRequest => lastCall.status \in (400..499) \ {404}

\* The weaker statement that such a request is not answered with a tile path.
C24_InvalidTileIsRefused == C24_InvalidRequest => lastCall.status # 200

(***************************************************************************)
(* C30: after slide S was deleted and a different file uploaded under the  *)
(* same name, the info returned for S and every newly computed tile of S   *)
(* are derived from the new file, not from a handle, slide info or pyramid *)
(* built from the deleted one.  (Under SpecRoutes the file at a path       *)
(* changes only by a delete followed by an upload.)                        *)
(***************************************************************************)
C30_InfoSize(info) ==
    IF "dimensions" \in DOMAIN info THEN info.dimensions
    ELSE <<info.width, info.height>>

C30_InfoFromCurrentFile ==
    (lastCall.op = "info" /\ lastCall.status = 200)
    => /\ Decodable(files[lastCall.path[1]][1])
       /\ C30_InfoSize(lastCall.ret[1])
            = <<files[lastCall.path[1]][1].w, files[lastCall.path[1]][1].h>>

C30_NewTileFromCurrentFile ==
    (lastCall.op = "tile" /\ lastCall.wrote)
    => tiles[lastCall.ret[1].file].crop.img = files[lastCall.path[1]][1]

(***************************************************************************)
(* The routes over two slides, a.png and a_b.png, the second named by the  *)
(* base name of the first followed by an underscore.                       *)
(***************************************************************************)
DeleteSlides == {SlideA, SlideAB}

InitDelete ==
    /\ max_size = DefaultMaxSize
    /\ cache = <<>>
    /\ lastCall = NoCall
    /\ accessOrder = <<>>
    /\ history = <<>>
    /\ files = [p \in DeleteSlides |-> None]
    /\ tiles = <<>>
    /\ dzi = <<>>
    /\ served = <<>>
    /\ infos = <<>>
    /\ pc = [w \in Workers |-> "idle"]
    /\ loc = [w \in Workers |-> NoLocals]

NextDelete ==
    \/ /\ \E p \in DeleteSlides, write_ok \in BOOLEAN :
            \E content \in {None} \cup {Some(img) : img \in Contents(p)} :
                upload_slide(p, content, write_ok)
       /\ UNCHANGED <<max_size, accessOrder, history, tiles, served, infos, workerVars>>
    \/ /\ \E p \in DeleteSlides, r \in RouteRequests :
            get_slide_tile(p, r[1], r[2], r[3], RouteSize)
       /\ UNCHANGED <<max_size, accessOrder, history, files, dzi, infos, workerVars>>
    \/ /\ \E p \in DeleteSlides : delete_slide(p)
       /\ UNCHANGED <<max_size, cache, accessOrder, history, dzi, served, infos,
                      workerVars>>

SpecDelete == InitDelete /\ [][NextDelete]_vars

(***************************************************************************)
(* C31: a DELETE of slide S leaves the source file and the tile cache      *)
(* files of every other slide as they were, also of a slide whose name is  *)
(* the base name of S followed by an underscore.                           *)
(***************************************************************************)
C31_Step ==
    lastCall'.op = "delete" =>
        /\ \A q \in DOMAIN files : q # lastCall'.path[1] => files'[q] = files[q]
        /\ \A n \in DOMAIN tiles :
              served[n] # lastCall'.path[1]
              => n \in DOMAIN tiles' /\ tiles'[n] = tiles[n]

C31_DeleteLeavesOtherSlides == [][C31_Step]_vars

\* a.png has been deleted while a_b.png and a tile file written for it, whose
\* name the pattern of a.png matches, are on disk.
C31_Witness ==
    /\ lastCall.op = "delete"
    /\ lastCall.status = 200
    /\ lastCall.path = Some(SlideA)
    /\ files[SlideAB] # None
    /\ \E n \in DOMAIN tiles : served[n] = SlideAB /\ GlobMatches(SlideA.stem, n)

(***************************************************************************)
(* C32: an open_slide or get_tile call that fails for a slide (its file is *)
(* missing or cannot be decoded) leaves the reader cache as it was before  *)
(* the call: no handle of the failed slide becomes resident and no handle  *)
(* that was resident is evicted.                                           *)
(***************************************************************************)
\* The validation of an upload is open_slide on the uploaded file; it has
\* failed when the upload is answered 400.
C32_Step ==
    (lastCall'.op = "upload" /\ lastCall'.status = 400)
    => /\ Keys(cache) \subseteq Keys(cache')
       /\ (~Contains(cache, lastCall'.path[1]) => ~Contains(cache', lastCall'.path[1]))

C32_FailedCallLeavesCache == [][C32_Step]_vars

\* The same for the service's open_slide under a small capacity: a call that
\* returned (False, None) has evicted nothing and its slide is not resident.
C32_FailedOpenEvictsNothing ==
    (lastCall.op = "open_slide" /\ ~lastCall.ret[1])
    => /\ lastCall.evicted = None
       /\ ~Contains(cache, lastCall.path[1])

====
